---- MODULE Spec2Model ----
(***************************************************************************)
(* bulk2es-rs: a one-shot loader of NDJSON files into an Elasticsearch     *)
(* index.  Loader::load probes/creates the index once, then processes      *)
(* every *.json file with a rayon parallel iterator; each file gets its    *)
(* own ElasticsearchOutput (client + buffer), which is flushed in chunks   *)
(* of buffer_size documents by close().                                    *)
(***************************************************************************)
EXTENDS Integers, Sequences, FiniteSets, TLC

\* ------------------------------------------------------------------ bounds
MaxFiles == 2
MaxRunLines == 1
MaxDocLines == 3
MaxBufferSize == 2

\* ------------------------------------------------------------ JSON values
\* A JSON value of a document member: a string or a number (not a string).
Str(s) == [kind |-> "string", val |-> s]
Num(s) == [kind |-> "number", val |-> s]
Member(k, v) == [key |-> k, value |-> v]

\* A text line of an input file: either the text of a JSON object, given by
\* its members in the order they are written (a key may be written twice),
\* or text that is not a JSON object (an empty line, garbage).
Doc(members) == [json |-> TRUE, members |-> members]
NotJson == [json |-> FALSE, members |-> <<>>]

LineA == Doc(<<Member("id", Str("1")), Member("t", Str("x"))>>)
LineB == Doc(<<Member("t", Str("y")), Member("id", Str("2"))>>)
LineDup == Doc(<<Member("id", Str("1")), Member("id", Str("3"))>>)
LineNoId == Doc(<<Member("t", Str("x"))>>)
LineNumId == Doc(<<Member("id", Num("7"))>>)

\* What BufReader::lines() yields for one line: Ok(line) or Err(_).
OkLine(l) == [ok |-> TRUE, line |-> l]
ErrLine == [ok |-> FALSE, line |-> NotJson]

Seqs(S, n) == UNION {[1..k -> S] : k \in 0..n}

\* A file of the input directory: whether File::open succeeds, and its lines.
File(openable, lines) == [openable |-> openable, lines |-> lines]
Unopenable == File(FALSE, <<>>)

\* Files of the run specification (several files, short) and of the
\* single-file specification (one file, every kind of line).
RunLines == {OkLine(LineA), OkLine(LineNoId)}
DocLines == {OkLine(LineA), OkLine(LineB), OkLine(LineDup), OkLine(LineNoId),
             OkLine(LineNumId), OkLine(NotJson), ErrLine}
RunFiles == {Unopenable} \cup {File(TRUE, ls) : ls \in Seqs(RunLines, MaxRunLines)}
DocFiles == {File(TRUE, ls) : ls \in Seqs(DocLines, MaxDocLines)}

\* ---------------------------------------------------------------- EsConfig
EsConfig == [buffer_size : 0..MaxBufferSize,
             index_name : {"docs"},
             id_field_name : {"id"}]

NoConfig == [buffer_size |-> 0, index_name |-> "", id_field_name |-> ""]

VARIABLES
    configFile,  \* the YAML config file: [readable, config]
    schemaFile,  \* TRUE iff load_schema can open and parse the schema file
    initializer, \* the config held by the initializer's ElasticsearchOutput
    fs,          \* the *.json files the glob yields, in glob order
    main,        \* position of the main thread in Loader::load
    initLog,     \* exists-probe and create-index requests: <<[by, method, response]>>
    leaves,      \* the par_iter's sequential jobs: a partition of 1..Len(fs)
    workers      \* per file: the state of its load_file call

vars == <<configFile, schemaFile, initializer, fs, main, initLog, leaves, workers>>

Min(a, b) == IF a <= b THEN a ELSE b

\* ------------------------------------------------------- pure functions
\* serde_json::from_str::<Map<String, Value>>: the object as a map from the
\* keys written to their values; of a key written twice the last value stays.
LastIndexOf(members, k) ==
    CHOOSE i \in 1..Len(members) :
        /\ members[i].key = k
        /\ \A j \in (i + 1)..Len(members) : members[j].key # k

from_str(line) ==
    [k \in {line.members[i].key : i \in 1..Len(line.members)} |->
        line.members[LastIndexOf(line.members, k)].value]

\* proceed_chunk's per-document step: parse the line, look the id field up
\* and require a JSON string.  "ok" is FALSE where the code panics.
ExtractId(config, d) ==
    IF ~d.json THEN [ok |-> FALSE, why |-> "parse", id |-> ""]
    ELSE LET doc_map == from_str(d) IN
         IF config.id_field_name \notin DOMAIN doc_map
         THEN [ok |-> FALSE, why |-> "no_id", id |-> ""]
         ELSE IF doc_map[config.id_field_name].kind # "string"
         THEN [ok |-> FALSE, why |-> "no_id", id |-> ""]
         ELSE [ok |-> TRUE, why |-> "", id |-> doc_map[config.id_field_name].val]

ActionLine(id) == [index |-> [_id |-> id]]

\* The id taken once, from the chunk's first document, for every action line.
BulkBodyStaleId(config, chunk) ==
    [j \in 1..(2 * Len(chunk)) |->
        IF j % 2 = 1
        THEN ActionLine(ExtractId(config, chunk[1]).id)
        ELSE from_str(chunk[j \div 2])]

\* The bulk body of a chunk: for every document an action line followed by
\* the re-serialized document.
BulkBody(config, chunk) ==
    [j \in 1..(2 * Len(chunk)) |->
        IF j % 2 = 1
        THEN ActionLine(ExtractId(config, chunk[(j + 1) \div 2]).id)
        ELSE from_str(chunk[j \div 2])]

\* The id check left out: no document of a chunk stops its request.
FirstBadUnchecked(config, chunk) == 0

\* The first document of the chunk at which proceed_chunk panics, 0 if none.
FirstBad(config, chunk) ==
    IF \A i \in 1..Len(chunk) : ExtractId(config, chunk[i]).ok THEN 0
    ELSE CHOOSE i \in 1..Len(chunk) :
            /\ ~ExtractId(config, chunk[i]).ok
            /\ \A j \in 1..(i - 1) : ExtractId(config, chunk[j]).ok

\* close(): the chunk size, and slice::chunks(chunk_size) for chunk_size > 0.
ChunkSize(buffer, config) ==
    IF Len(buffer) <= config.buffer_size THEN Len(buffer) ELSE config.buffer_size

\* slice::windows in the place of slice::chunks: overlapping slices.
ChunksWindows(buffer, chunk_size) ==
    [i \in 1..(Len(buffer) - chunk_size + 1) |->
        SubSeq(buffer, i, i + chunk_size - 1)]

\* slice::rchunks in the place of slice::chunks: the chunks are cut from the end.
ChunksFromEnd(buffer, chunk_size) ==
    [i \in 1..((Len(buffer) + chunk_size - 1) \div chunk_size) |->
        SubSeq(buffer,
               IF Len(buffer) - i * chunk_size + 1 >= 1
               THEN Len(buffer) - i * chunk_size + 1 ELSE 1,
               Len(buffer) - (i - 1) * chunk_size)]

\* slice::chunks_exact in the place of slice::chunks: the remainder is left out.
ChunksExact(buffer, chunk_size) ==
    [i \in 1..(Len(buffer) \div chunk_size) |->
        SubSeq(buffer, (i - 1) * chunk_size + 1, i * chunk_size)]

Chunks(buffer, chunk_size) ==
    [i \in 1..((Len(buffer) + chunk_size - 1) \div chunk_size) |->
        SubSeq(buffer, (i - 1) * chunk_size + 1, Min(i * chunk_size, Len(buffer)))]

\* The loop left at the first Err line (break, or `?` on the line).
RECURSIVE ReadLinesUntilErr(_)
ReadLinesUntilErr(items) ==
    IF items = <<>> THEN <<>>
    ELSE IF Head(items).ok
    THEN <<Head(items).line>> \o ReadLinesUntilErr(Tail(items))
    ELSE <<>>

\* load_file's loop: Ok lines are pushed to the buffer in order, Err lines
\* are logged and dropped.
RECURSIVE ReadLines(_)
ReadLines(items) ==
    IF items = <<>> THEN <<>>
    ELSE IF Head(items).ok THEN <<Head(items).line>> \o ReadLines(Tail(items))
    ELSE ReadLines(Tail(items))

\* ------------------------------------------------------------ initial state
IdleWorker ==
    [pc |-> "idle", config |-> NoConfig, buffer |-> <<>>, tasks |-> <<>>,
     next |-> 0, sent |-> <<>>, last |-> "", error |-> ""]

InitWith(dirs) ==
    /\ configFile \in [readable : BOOLEAN, config : EsConfig]
    /\ schemaFile \in BOOLEAN
    /\ initializer = NoConfig
    /\ fs \in dirs
    /\ main = "start"
    /\ initLog = <<>>
    /\ leaves = <<>>
    /\ workers = [i \in 1..Len(fs) |-> IdleWorker]

\* A directory of up to MaxFiles short files; a directory of one file.
Init == InitWith(Seqs(RunFiles, MaxFiles))
InitDoc == InitWith([1..1 -> DocFiles])

\* ------------------------------------------------- Loader::initialize_es
\* ElasticsearchOutput::new of the initializer: EsConfig::new panics when the
\* config file cannot be opened or parsed.
InitializerNew ==
    /\ main = "start"
    /\ main' = IF configFile.readable THEN "configured" ELSE "panicked"
    /\ initializer' = IF configFile.readable THEN configFile.config ELSE NoConfig
    /\ UNCHANGED <<configFile, schemaFile, fs, initLog, leaves, workers>>

\* exist_index: call_indices_exists sends the exists-probe and blocks on it.
CallIndicesExists ==
    /\ main = "configured"
    /\ initLog' = Append(initLog, [by |-> "initializer", method |-> "HEAD", response |-> "pending"])
    /\ main' = "probing"
    /\ UNCHANGED <<configFile, schemaFile, initializer, fs, leaves, workers>>

ProbeResponses == {"200", "404", "500", "transport_error"}

\* The answer of exist_index negated: an existing index is created again.
IndicesExistsResponseNegated(r) ==
    /\ main = "probing"
    /\ initLog' = [initLog EXCEPT ![Len(initLog)].response = r]
    /\ main' = CASE r = "200" -> "create"
                 [] r = "404" -> "initialized"
                 [] OTHER -> "panicked"
    /\ UNCHANGED <<configFile, schemaFile, initializer, fs, leaves, workers>>

\* The probe's answer: 200 -> Ok(true), initialize skips the creation;
\* 404 -> Ok(false), initialize goes on to call_indices_create; anything else
\* -> Err, on which exist_index's expect panics.
IndicesExistsResponse(r) ==
    /\ main = "probing"
    /\ initLog' = [initLog EXCEPT ![Len(initLog)].response = r]
    /\ main' = CASE r = "200" -> "initialized"
                 [] r = "404" -> "create"
                 [] OTHER -> "panicked"
    /\ UNCHANGED <<configFile, schemaFile, initializer, fs, leaves, workers>>

\* The create-index request sent and not waited for (no block_on).
CallIndicesCreateNoWait ==
    /\ main = "create"
    /\ IF schemaFile
       THEN /\ initLog' = Append(initLog, [by |-> "initializer", method |-> "PUT", response |-> "pending"])
            /\ main' = "initialized"
       ELSE /\ main' = "panicked"
            /\ UNCHANGED initLog
    /\ UNCHANGED <<configFile, schemaFile, initializer, fs, leaves, workers>>

\* call_indices_create: load_schema panics when the schema file cannot be
\* read; otherwise the create-index request is sent.
CallIndicesCreate ==
    /\ main = "create"
    /\ IF schemaFile
       THEN /\ initLog' = Append(initLog, [by |-> "initializer", method |-> "PUT", response |-> "pending"])
            /\ main' = "creating"
       ELSE /\ main' = "panicked"
            /\ UNCHANGED initLog
    /\ UNCHANGED <<configFile, schemaFile, initializer, fs, leaves, workers>>

CreateResponses == {"200", "400", "transport_error"}

\* The result of the create-index call dropped instead of expect-ed.
IndicesCreateResponseIgnored(r) ==
    /\ main = "creating"
    /\ initLog' = [initLog EXCEPT ![Len(initLog)].response = r]
    /\ main' = "initialized"
    /\ UNCHANGED <<configFile, schemaFile, initializer, fs, leaves, workers>>

\* The create-index answer: 2xx -> Ok(()); non-2xx or a transport error ->
\* Err, on which initialize's expect panics.
IndicesCreateResponse(r) ==
    /\ main = "creating"
    /\ initLog' = [initLog EXCEPT ![Len(initLog)].response = r]
    /\ main' = IF r = "200" THEN "initialized" ELSE "panicked"
    /\ UNCHANGED <<configFile, schemaFile, initializer, fs, leaves, workers>>

\* ----------------------------------------------------------- Loader::load
\* files.par_iter(): the parallel iterator splits the file list into
\* contiguous sequential jobs; how far it splits depends on the pool's thread
\* count and on work stealing.  leaves[i] is the first file of the job that
\* holds file i.
LeafStarts(n) ==
    {ls \in [1..n -> 1..n] :
        \A i \in 1..n : IF i = 1 THEN ls[i] = 1 ELSE ls[i] \in {i, ls[i - 1]}}

FanOut ==
    /\ main = "initialized"
    /\ leaves' \in LeafStarts(Len(fs))
    /\ main' = "running"
    /\ UNCHANGED <<configFile, schemaFile, initializer, fs, initLog, workers>>

\* A sequential job maps load_file over its files in order; a panic of one
\* call unwinds the job, so the files after it in the job are never loaded.
Earlier(i) == leaves[i]..(i - 1)
Runnable(i) ==
    /\ main = "running"
    /\ workers[i].pc = "idle"
    /\ \A j \in Earlier(i) : workers[j].pc = "done"
Skipped(i) ==
    /\ main \in {"running", "returned", "panicked"}
    /\ i \in DOMAIN leaves
    /\ \E j \in Earlier(i) : workers[j].pc = "panicked"
Finished(i) == workers[i].pc \in {"done", "panicked"} \/ Skipped(i)

Panic(i, why) ==
    workers' = [workers EXCEPT ![i].pc = "panicked", ![i].error = why]

\* Every worker probing the index again when it is constructed.
WorkerNewProbing(i) ==
    /\ Runnable(i)
    /\ workers' = [workers EXCEPT ![i].pc = "new", ![i].config = configFile.config]
    /\ initLog' = Append(initLog, [by |-> "worker", method |-> "HEAD", response |-> "200"])
    /\ UNCHANGED <<configFile, schemaFile, initializer, fs, main, leaves>>

\* load_file: ElasticsearchOutput::new reads the config file again and
\* builds this worker's client.
WorkerNew(i) ==
    /\ Runnable(i)
    /\ IF configFile.readable
       THEN workers' = [workers EXCEPT ![i].pc = "new",
                                       ![i].config = configFile.config]
       ELSE Panic(i, "config")
    /\ UNCHANGED <<configFile, schemaFile, initializer, fs, main, initLog, leaves>>

\* load_file: File::open(..).unwrap(), then the loop over lines().
WorkerRead(i) ==
    /\ workers[i].pc = "new"
    /\ IF fs[i].openable
       THEN workers' = [workers EXCEPT ![i].pc = "read",
                                       ![i].buffer = ReadLines(fs[i].lines)]
       ELSE Panic(i, "open")
    /\ UNCHANGED <<configFile, schemaFile, initializer, fs, main, initLog, leaves>>

\* The requests of all chunks started when the task list is built (tasks
\* spawned on the runtime instead of futures polled one by one).
WorkerCloseEager(i) ==
    /\ workers[i].pc = "read"
    /\ LET w == workers[i]
           chunk_size == ChunkSize(w.buffer, w.config)
           chunks == Chunks(w.buffer, chunk_size)
       IN IF chunk_size = 0
          THEN Panic(i, "chunk_size_zero")
          ELSE IF \E c \in 1..Len(chunks) : FirstBad(w.config, chunks[c]) # 0
          THEN Panic(i, "no_id")
          ELSE workers' = [workers EXCEPT
                              ![i].pc = "await",
                              ![i].tasks = chunks,
                              ![i].next = 1,
                              ![i].sent = [c \in 1..Len(chunks) |->
                                              BulkBody(w.config, chunks[c])]]
    /\ UNCHANGED <<configFile, schemaFile, initializer, fs, main, initLog, leaves>>

\* close(), up to the first block_on: the chunk size is computed and the
\* buffer is cut by slice::chunks, which panics on a chunk size of 0; one
\* future per chunk is created, none has run yet.
WorkerClose(i) ==
    /\ workers[i].pc = "read"
    /\ LET w == workers[i]
           chunk_size == ChunkSize(w.buffer, w.config)
       IN IF chunk_size = 0
          THEN Panic(i, "chunk_size_zero")
          ELSE workers' = [workers EXCEPT ![i].pc = "flush",
                                          ![i].tasks = Chunks(w.buffer, chunk_size),
                                          ![i].next = 1]
    /\ UNCHANGED <<configFile, schemaFile, initializer, fs, main, initLog, leaves>>

\* block_on(task) starts the next proceed_chunk future: the body is built
\* (a document without a usable id panics) and the bulk request is sent.
ProceedChunk(i) ==
    /\ workers[i].pc = "flush"
    /\ LET w == workers[i]
           chunk == w.tasks[w.next]
           bad == FirstBad(w.config, chunk)
       IN IF bad # 0
          THEN Panic(i, ExtractId(w.config, chunk[bad]).why)
          ELSE workers' = [workers EXCEPT ![i].pc = "await",
                              ![i].sent = Append(w.sent, BulkBody(w.config, chunk))]
    /\ UNCHANGED <<configFile, schemaFile, initializer, fs, main, initLog, leaves>>

BulkResponses == {"200", "200_errors", "200_bad_body", "500", "transport_error"}

\* A failed bulk request only logged: the flush goes on with the next chunk.
BulkResponseFailureLogged(i, r) ==
    /\ workers[i].pc = "await"
    /\ LET w == workers[i] IN
       IF w.next = Len(w.tasks)
       THEN workers' = [workers EXCEPT ![i].pc = "done", ![i].last = r,
                                       ![i].next = w.next + 1,
                                       ![i].buffer = <<>>]
       ELSE workers' = [workers EXCEPT ![i].pc = "flush", ![i].last = r,
                                       ![i].next = w.next + 1]
    /\ UNCHANGED <<configFile, schemaFile, initializer, fs, main, initLog, leaves>>

\* Item errors of a 2xx answer raised like a failed request.
BulkResponseItemErrorsFatal(i, r) ==
    /\ workers[i].pc = "await"
    /\ LET w == workers[i] IN
       IF r = "200"
       THEN IF w.next = Len(w.tasks)
            THEN workers' = [workers EXCEPT ![i].pc = "done", ![i].last = r,
                                            ![i].next = w.next + 1,
                                            ![i].buffer = <<>>]
            ELSE workers' = [workers EXCEPT ![i].pc = "flush", ![i].last = r,
                                            ![i].next = w.next + 1]
       ELSE workers' = [workers EXCEPT ![i].pc = "panicked", ![i].last = r,
                                       ![i].error = "bulk"]
    /\ UNCHANGED <<configFile, schemaFile, initializer, fs, main, initLog, leaves>>

\* The bulk answer.  2xx with a readable body (with or without item errors)
\* -> Ok(()): the next task runs, or after the last one the buffer is cleared
\* and load_file returns.  A non-2xx status panics; a transport error or an
\* unreadable body is an Err, on which close's expect panics.
BulkResponse(i, r) ==
    /\ workers[i].pc = "await"
    /\ LET w == workers[i] IN
       IF r \in {"200", "200_errors"}
       THEN IF w.next = Len(w.tasks)
            THEN workers' = [workers EXCEPT ![i].pc = "done", ![i].last = r,
                                            ![i].next = w.next + 1,
                                            ![i].buffer = <<>>]
            ELSE workers' = [workers EXCEPT ![i].pc = "flush", ![i].last = r,
                                            ![i].next = w.next + 1]
       ELSE workers' = [workers EXCEPT ![i].pc = "panicked", ![i].last = r,
                                       ![i].error = "bulk"]
    /\ UNCHANGED <<configFile, schemaFile, initializer, fs, main, initLog, leaves>>

\* load returning as soon as one job has ended, the others still running.
JoinFirst ==
    /\ main = "running"
    /\ \/ DOMAIN workers = {}
       \/ \E i \in DOMAIN workers : Finished(i)
    /\ main' = IF \E i \in DOMAIN workers : workers[i].pc = "panicked"
               THEN "panicked" ELSE "returned"
    /\ UNCHANGED <<configFile, schemaFile, initializer, fs, initLog, leaves, workers>>

\* The parallel iterator returns once every job has ended; a panic of a job
\* is resumed in load, otherwise load returns Ok(()).
Join ==
    /\ main = "running"
    /\ \A i \in DOMAIN workers : Finished(i)
    /\ main' = IF \E i \in DOMAIN workers : workers[i].pc = "panicked"
               THEN "panicked" ELSE "returned"
    /\ UNCHANGED <<configFile, schemaFile, initializer, fs, initLog, leaves, workers>>

\* main: Ok(()) is logged and the process exits 0; a panic exits 101.
ExitCode ==
    CASE main = "returned" -> 0
      [] main = "panicked" -> 101
      [] OTHER -> -1

Next ==
    \/ InitializerNew
    \/ CallIndicesExists
    \/ \E r \in ProbeResponses : IndicesExistsResponse(r)
    \/ CallIndicesCreate
    \/ \E r \in CreateResponses : IndicesCreateResponse(r)
    \/ FanOut
    \/ \E i \in DOMAIN workers : WorkerNew(i)
    \/ \E i \in DOMAIN workers : WorkerRead(i)
    \/ \E i \in DOMAIN workers : WorkerClose(i)
    \/ \E i \in DOMAIN workers : ProceedChunk(i)
    \/ \E i \in DOMAIN workers : \E r \in BulkResponses : BulkResponse(i, r)
    \/ Join

Spec == Init /\ [][Next]_vars
SpecDoc == InitDoc /\ [][Next]_vars

\* The environment: the config file is rewritten (or removed, or made
\* unparsable) while the run is in progress.
ConfigFileWritten ==
    /\ main \notin {"returned", "panicked"}
    /\ configFile' \in [readable : BOOLEAN, config : EsConfig] \ {configFile}
    /\ UNCHANGED <<schemaFile, initializer, fs, main, initLog, leaves, workers>>

NextCfg == Next \/ ConfigFileWritten
SpecCfg == Init /\ [][NextCfg]_vars

\* ================================================================ claims
\* The documents of file i in file order: the lines that can be read.
DocsOf(i) ==
    LET ok == SelectSeq(fs[i].lines, LAMBDA x : x.ok)
    IN [j \in 1..Len(ok) |-> ok[j].line]

\* The source lines of a bulk body, and of a sequence of bulk bodies.
Sources(body) == [j \in 1..(Len(body) \div 2) |-> body[2 * j]]
RECURSIVE AllSources(_)
AllSources(bodies) ==
    IF bodies = <<>> THEN <<>>
    ELSE Sources(Head(bodies)) \o AllSources(Tail(bodies))

Flushing(i) == workers[i].pc \in {"flush", "await", "done"}

\* C1: a worker that closes with N documents and buffer_size B >= 1 submits
\* the contiguous chunks of B documents in order (only the last one may be
\* shorter), the body of a chunk of k documents has 2*k lines, and a close
\* that runs to its end has made ceil(N/B) submissions.
C1_ChunkedFlush ==
    \A i \in DOMAIN workers :
        LET w == workers[i]
            B == w.config.buffer_size
            N == Len(DocsOf(i))
        IN /\ Flushing(i) => B >= 1 /\ N >= 1
           /\ \A c \in 1..Len(w.sent) :
                LET first == (c - 1) * B + 1
                    k == IF c * B <= N THEN B ELSE N - (c - 1) * B
                IN /\ k >= 1
                   /\ c * B < N => k = B
                   /\ Len(w.sent[c]) = 2 * k
                   /\ \A j \in 1..k :
                        w.sent[c][2 * j] = from_str(DocsOf(i)[first + j - 1])
           /\ w.pc = "done" => Len(w.sent) * B >= N /\ (Len(w.sent) - 1) * B < N

C1_Witness ==
    \E i \in DOMAIN workers :
        /\ workers[i].pc = "done"
        /\ workers[i].config.buffer_size = 2
        /\ Len(DocsOf(i)) = 3
        /\ Len(workers[i].sent) = 2
        /\ Len(workers[i].sent[2]) = 2

\* C2: in every bulk body, the _id of each action line is the string value
\* of the id field of the source document that follows it.
C2_ActionIdMatchesSource ==
    \A i \in DOMAIN workers :
        \A c \in 1..Len(workers[i].sent) :
            LET body == workers[i].sent[c]
                field == workers[i].config.id_field_name
            IN \A j \in 1..(Len(body) \div 2) :
                /\ field \in DOMAIN body[2 * j]
                /\ body[2 * j][field].kind = "string"
                /\ body[2 * j - 1].index._id = body[2 * j][field].val

\* A body of two documents with different ids, one of them written with its
\* id field twice.
C2_Witness ==
    \E i \in DOMAIN workers :
        \E c \in 1..Len(workers[i].sent) :
            /\ Len(workers[i].sent[c]) = 4
            /\ workers[i].sent[c][1].index._id = "2"
            /\ workers[i].sent[c][3].index._id = "3"

\* C3: the documents of the chunks a worker has submitted, concatenated in
\* submission order, are the documents of its file in file order: always a
\* prefix of them, and all of them once the worker has completed.
C3_FileOrderPreserved ==
    \A i \in DOMAIN workers :
        LET submitted == AllSources(workers[i].sent)
            docs == DocsOf(i)
        IN /\ Len(submitted) <= Len(docs)
           /\ \A j \in 1..Len(submitted) : submitted[j] = from_str(docs[j])
           /\ workers[i].pc = "done" => Len(submitted) = Len(docs)

\* Three different documents submitted in two chunks.
C3_Witness ==
    \E i \in DOMAIN workers :
        /\ workers[i].pc = "done"
        /\ Len(workers[i].sent) = 2
        /\ DocsOf(i) = <<LineA, LineB, LineDup>>

\* C9: closing a worker whose buffer is empty sends no bulk request,
\* completes without failure and leaves the buffer empty.
C9_EmptyFlushIsNoOp ==
    \A i \in DOMAIN workers :
        (/\ fs[i].openable
         /\ DocsOf(i) = <<>>
         /\ workers[i].config.buffer_size >= 1
         /\ workers[i].pc \notin {"idle", "new", "read"})
        => /\ workers[i].pc = "done"
           /\ workers[i].sent = <<>>
           /\ workers[i].buffer = <<>>

\* Requests of a method in the initializer's log, and their answers.
Requests(method) == {k \in 1..Len(initLog) : initLog[k].method = method}
Answered(method, rs) ==
    \E k \in Requests(method) : initLog[k].response \in rs
SomeBulkSent == \E i \in DOMAIN workers : workers[i].sent # <<>>
SomeWorkerPanicked == \E i \in DOMAIN workers : workers[i].pc = "panicked"

\* C4: once the exists-probe has answered 200, no create-index request is
\* made in the run, and the run goes on to the workers: initialization
\* does not end it.
C4_ExistingIndexNotCreated ==
    Answered("HEAD", {"200"}) =>
        /\ Requests("PUT") = {}
        /\ main \in {"initialized", "running", "returned", "panicked"}
        /\ main = "panicked" => SomeWorkerPanicked

C4_Witness ==
    /\ Answered("HEAD", {"200"})
    /\ main = "returned"
    /\ SomeBulkSent

\* C5: a run makes at most one exists-probe and at most one create-index
\* request, exactly one exists-probe once initialization is through, for any
\* number of files; each of them is made by the initializer, none by a worker.
C5_OneProbeAtMostOneCreate ==
    /\ Cardinality(Requests("HEAD")) <= 1
    /\ Cardinality(Requests("PUT")) <= 1
    /\ Len(initLog) = Cardinality(Requests("HEAD")) + Cardinality(Requests("PUT"))
    /\ \A k \in 1..Len(initLog) : initLog[k].by = "initializer"
    /\ main \in {"probing", "create", "creating", "initialized", "running", "returned"}
          => Cardinality(Requests("HEAD")) = 1

C5_Witness ==
    /\ main = "returned"
    /\ Len(fs) = 2
    /\ Cardinality(Requests("HEAD")) = 1
    /\ Cardinality(Requests("PUT")) = 1
    /\ \A i \in DOMAIN workers : workers[i].pc = "done"

\* C6: when a worker has constructed its client (and so before it reads its
\* file or sends a bulk request), the exists-probe and, if there is one, the
\* create-index request have been answered, the last of them with success.
C6_InitializationBarrier ==
    \A i \in DOMAIN workers :
        workers[i].pc # "idle" =>
            /\ main \in {"running", "returned", "panicked"}
            /\ Cardinality(Requests("HEAD")) = 1
            /\ \A k \in 1..Len(initLog) : initLog[k].response # "pending"
            /\ initLog[Len(initLog)].response = "200"

C6_Witness ==
    /\ Answered("PUT", {"200"})
    /\ \E i \in DOMAIN workers : workers[i].pc = "new"

InitializationCompleted ==
    initLog # <<>> /\ initLog[Len(initLog)].response = "200"
RunEnded == InitializationCompleted /\ main \in {"returned", "panicked"}

\* C7: a worker failure is confined to its file: when the run has ended,
\* every worker that did not fail itself has run to completion and has
\* submitted all the documents of its file.
C7_FailureConfined ==
    RunEnded =>
        \A i \in DOMAIN workers :
            workers[i].pc # "panicked" =>
                /\ workers[i].pc = "done"
                /\ Len(AllSources(workers[i].sent)) = Len(DocsOf(i))

\* C8: when initialization has completed and the run has ended, it has ended
\* with success (load has returned Ok, exit code 0), whether or not workers
\* failed.
C8_RunSucceedsDespiteWorkerFailures ==
    RunEnded => main = "returned" /\ ExitCode = 0

\* C10: once the exists-probe has been answered with anything but 200 or 404
\* (a transport failure included), or the create-index request has failed,
\* the run has ended with an error, no worker has been started and no bulk
\* request has been sent.
InitializationFailed ==
    \/ Answered("HEAD", ProbeResponses \ {"200", "404"})
    \/ Answered("PUT", CreateResponses \ {"200"})

C10_InitErrorsAreFatal ==
    InitializationFailed =>
        /\ main = "panicked"
        /\ ExitCode # 0
        /\ leaves = <<>>
        /\ \A i \in DOMAIN workers :
              workers[i].pc = "idle" /\ workers[i].sent = <<>>
        /\ ~ENABLED Next

C10_Witness ==
    /\ Answered("PUT", {"400"})
    /\ main = "panicked"
    /\ Len(fs) >= 1

\* C11: a bulk answer that is 2xx with errors == true is a success of
\* proceed_chunk: the step that receives it does not fail the worker, counts
\* the chunk as delivered and moves on to the next chunk, or completes the
\* worker after the last one.
C11_ItemErrorsNotPropagated ==
    [][\A i \in DOMAIN workers :
          (/\ workers[i].pc = "await"
           /\ workers'[i] # workers[i]
           /\ workers'[i].last = "200_errors")
          => /\ workers'[i].error = ""
             /\ workers'[i].next = workers[i].next + 1
             /\ workers'[i].sent = workers[i].sent
             /\ IF workers[i].next < Len(workers[i].tasks)
                THEN workers'[i].pc = "flush"
                ELSE workers'[i].pc = "done"]_vars

\* The chunk after one answered with item errors has been sent.
C11_Witness ==
    \E i \in DOMAIN workers :
        /\ workers[i].last = "200_errors"
        /\ workers[i].pc = "await"
        /\ Len(workers[i].sent) = 2

\* C12: a document whose id field is missing or is not a JSON string is in
\* no bulk request: the ids of a whole chunk are extracted before its request
\* is sent, so neither that document nor any other document of its chunk
\* (nor of a later chunk) is ever sent.
NoUsableId(d) == d \in {LineNoId, LineNumId}

C12_DocumentWithoutIdNeverSent ==
    \A i \in DOMAIN workers :
        \A p \in 1..Len(DocsOf(i)) :
            (NoUsableId(DocsOf(i)[p]) /\ workers[i].config.buffer_size >= 1)
            => LET B == workers[i].config.buffer_size
                   before == ((p - 1) \div B) * B
               IN /\ Len(AllSources(workers[i].sent)) <= before
                  /\ Len(workers[i].sent) <= (p - 1) \div B
                  /\ workers[i].pc # "done"

\* The second chunk holds a document without id: the first chunk was sent,
\* the worker failed on the second.
C12_Witness ==
    \E i \in DOMAIN workers :
        /\ workers[i].pc = "panicked"
        /\ workers[i].error = "no_id"
        /\ Len(workers[i].sent) = 1
        /\ DocsOf(i) = <<LineA, LineB, LineNoId>>
        /\ workers[i].config.buffer_size = 2

\* C13: a config whose buffer_size is 0 is rejected at startup: the run ends
\* with an error before the exists-probe is sent and before any worker
\* starts, so no worker computes a chunk size of 0.
C13_ZeroBufferSizeRejected ==
    (configFile.readable /\ configFile.config.buffer_size = 0)
    => /\ main \in {"start", "panicked"}
       /\ initLog = <<>>
       /\ \A i \in DOMAIN workers : workers[i].pc = "idle"

\* The chunks of worker i whose request has been answered with success, and
\* its requests that have been sent and not answered yet.
Delivered(i) == IF workers[i].next = 0 THEN 0 ELSE workers[i].next - 1
InFlight(i) ==
    IF workers[i].pc = "await" THEN Len(workers[i].sent) - Delivered(i) ELSE 0

\* C14: the flush of a worker is sequential: at most one bulk request of the
\* worker is in flight, and the body of a chunk is built and sent only when
\* every chunk before it has been answered.
C14_SequentialFlush ==
    \A i \in DOMAIN workers :
        /\ InFlight(i) <= 1
        /\ Len(workers[i].sent) <= Delivered(i) + 1
        /\ workers[i].pc = "await" => Len(workers[i].sent) = Delivered(i) + 1
        /\ workers[i].pc \in {"flush", "done"} => Len(workers[i].sent) = Delivered(i)

\* The second request is in flight, the first has been answered.
C14_Witness ==
    \E i \in DOMAIN workers :
        /\ workers[i].pc = "await"
        /\ Len(workers[i].sent) = 2
        /\ Len(workers[i].tasks) = 3
        /\ Delivered(i) = 1

\* How often a parsed document occurs among the documents a worker has
\* sent, and among the lines of its file.
TimesSent(i, doc) ==
    Cardinality({j \in 1..Len(AllSources(workers[i].sent)) :
                    AllSources(workers[i].sent)[j] = doc})
TimesInFile(i, doc) ==
    Cardinality({p \in 1..Len(DocsOf(i)) :
                    DocsOf(i)[p].json /\ from_str(DocsOf(i)[p]) = doc})

\* C15: within a worker no line occurrence is submitted twice: a document is
\* sent at most as often as it is written in the file; and when the flush is
\* over the buffer is empty and the worker takes no further step, so that
\* nothing is sent again.
C15_NoDocumentSentTwice ==
    \A i \in DOMAIN workers :
        /\ \A j \in 1..Len(AllSources(workers[i].sent)) :
              LET doc == AllSources(workers[i].sent)[j]
              IN TimesSent(i, doc) <= TimesInFile(i, doc)
        /\ workers[i].pc = "done" =>
              /\ workers[i].buffer = <<>>
              /\ ~ENABLED (\/ WorkerNew(i) \/ WorkerRead(i) \/ WorkerClose(i)
                           \/ ProceedChunk(i)
                           \/ \E r \in BulkResponses : BulkResponse(i, r))

\* A file that writes the same document on two lines, flushed in two chunks.
C15_Witness ==
    \E i \in DOMAIN workers :
        /\ workers[i].pc = "done"
        /\ DocsOf(i) = <<LineA, LineB, LineA>>
        /\ Len(workers[i].sent) = 2
        /\ workers[i].buffer = <<>>

\* C16 as stated: when the bulk request of chunk k has failed, the documents
\* the worker has submitted (sent in a bulk request) are exactly the first
\* (k - 1) * buffer_size documents of its buffer.
C16_SubmittedStopsBeforeFailedChunk ==
    \A i \in DOMAIN workers :
        workers[i].last \in {"500", "transport_error"} =>
            /\ workers[i].pc = "panicked"
            /\ Len(AllSources(workers[i].sent)) =
                  (Len(workers[i].sent) - 1) * workers[i].config.buffer_size

\* C16: when the bulk request of chunk k of a worker has been answered with
\* a non-2xx status or has failed in transport, the worker has failed: the
\* k requests it has sent are all it ever sends, the k - 1 chunks before
\* stay delivered, and the documents delivered (sent in a request that was
\* answered 2xx) are exactly the first (k - 1) * buffer_size documents of its
\* buffer; the documents of chunk k have been sent as well.
C16_BulkFailureFatalToWorker ==
    \A i \in DOMAIN workers :
        workers[i].last \in {"500", "transport_error"} =>
            LET k == Len(workers[i].sent)
                B == workers[i].config.buffer_size
                delivered == AllSources(SubSeq(workers[i].sent, 1, k - 1))
            IN /\ workers[i].pc = "panicked"
               /\ k >= 1
               /\ Delivered(i) = k - 1
               /\ Len(delivered) = (k - 1) * B
               /\ \A j \in 1..Len(delivered) : delivered[j] = from_str(DocsOf(i)[j])
               /\ ~ENABLED (\/ ProceedChunk(i)
                            \/ \E r \in BulkResponses : BulkResponse(i, r))

\* The second of three chunks has failed.
C16_Witness ==
    \E i \in DOMAIN workers :
        /\ workers[i].last = "500"
        /\ workers[i].pc = "panicked"
        /\ Len(workers[i].sent) = 2
        /\ Len(workers[i].tasks) = 3

HasReadError(i) == \E p \in 1..Len(fs[i].lines) : ~fs[i].lines[p].ok

\* C17: a line that cannot be read does not stop the file: after the loop the
\* buffer holds every readable line of the file, those after the failed line
\* included, in file order and without the failed line, and the worker goes
\* on to close().
C17_ReadErrorSkipsLine ==
    \A i \in DOMAIN workers :
        /\ workers[i].pc \in {"read", "flush", "await"} =>
              /\ workers[i].buffer = DocsOf(i)
              /\ Len(workers[i].buffer) =
                    Len(fs[i].lines) - Cardinality({p \in 1..Len(fs[i].lines) :
                                                       ~fs[i].lines[p].ok})
        /\ workers[i].pc = "read" => ENABLED WorkerClose(i)
        /\ (workers[i].pc = "panicked" /\ HasReadError(i))
              => workers[i].error \in {"chunk_size_zero", "parse", "no_id", "bulk"}

\* A file whose second line cannot be read: the first and the third line
\* have been flushed.
C17_Witness ==
    \E i \in DOMAIN workers :
        /\ fs[i].lines = <<OkLine(LineA), ErrLine, OkLine(LineB)>>
        /\ workers[i].pc = "done"
        /\ AllSources(workers[i].sent) = <<from_str(LineA), from_str(LineB)>>

\* C18: the config is loaded once and shared: every worker that has
\* constructed its ElasticsearchOutput holds the config the initializer
\* loaded, also when the config file is rewritten during the run.
C18_ConfigLoadedOnce ==
    \A i \in DOMAIN workers :
        workers[i].pc # "idle" =>
            /\ workers[i].error # "config"
            /\ workers[i].config = initializer

\* C19: when load has returned (no worker has failed), every worker has
\* completed, every readable line of every file has been sent, each once, in
\* a bulk request that has been answered, no request is pending and every
\* buffer is empty.
C19_CompleteAtReturn ==
    main = "returned" =>
        \A i \in DOMAIN workers :
            /\ workers[i].pc = "done"
            /\ workers[i].error = ""
            /\ Len(AllSources(workers[i].sent)) = Len(DocsOf(i))
            /\ \A p \in 1..Len(DocsOf(i)) :
                  AllSources(workers[i].sent)[p] = from_str(DocsOf(i)[p])
            /\ InFlight(i) = 0
            /\ Delivered(i) = Len(workers[i].sent)
            /\ workers[i].buffer = <<>>

\* load has returned from a run over two files with a document each.
C19_Witness ==
    /\ main = "returned"
    /\ Len(fs) = 2
    /\ \A i \in DOMAIN workers : Len(DocsOf(i)) = 1 /\ Len(workers[i].sent) = 1

====
